---- MODULE Spec2Model ----
(***************************************************************************)
(* Model of the Ruby binding of the ballistics engine, src/src/lib.rs:     *)
(* solve_trajectory reads a request hash, converts it to the engine's      *)
(* structures, runs the engine's solver once and converts the result to a  *)
(* response hash.                                                          *)
(*                                                                         *)
(* f64 values are modelled as exact rationals n / (d * 2^p2 * 5^p5); the   *)
(* decimal constants of the source are therefore exact.  PI is carried to  *)
(* nine significant digits.                                                *)
(***************************************************************************)
EXTENDS Integers, Sequences, FiniteSets, TLC

VARIABLES req, pc, loc, ballistic_inputs, wind, atmosphere, solver, result,
          result_hash, points, outcome

vars == <<req, pc, loc, ballistic_inputs, wind, atmosphere, solver, result,
          result_hash, points, outcome>>

(***************************************************************************)
(* Bounds of the model.                                                    *)
(***************************************************************************)
\* a request differs from the base request in at most MaxDev entries
MaxDev == 1
\* the solver returns at most MaxPoints trajectory points
MaxPoints == 2

(***************************************************************************)
(* Exact arithmetic standing for f64.                                      *)
(***************************************************************************)
Abs(i) == IF i < 0 THEN -i ELSE i

RECURSIVE Gcd(_, _)
Gcd(i, j) == IF j = 0 THEN i ELSE Gcd(j, i % j)

RECURSIVE Pow(_, _)
Pow(base, e) == IF e = 0 THEN 1 ELSE base * Pow(base, e - 1)

\* the number of times the prime q divides i, at most `most` times
RECURSIVE Times(_, _, _)
Times(q, i, most) ==
    IF most = 0 \/ i = 0 \/ i % q # 0 THEN 0 ELSE 1 + Times(q, i \div q, most - 1)

\* n / (d * 2^p2 * 5^p5) in lowest terms, d coprime to 10
Norm(n, d, p2, p5) ==
    IF n = 0 THEN [n |-> 0, d |-> 1, p2 |-> 0, p5 |-> 0]
    ELSE LET d2 == Times(2, d, 31)
             d5 == Times(5, d, 31)
             dd == d \div (Pow(2, d2) * Pow(5, d5))
             g  == Gcd(Abs(n), dd)
             n1 == n \div g
             c2 == Times(2, n1, p2 + d2)
             c5 == Times(5, n1, p5 + d5)
         IN  [n  |-> n1 \div (Pow(2, c2) * Pow(5, c5)),
              d  |-> dd \div g,
              p2 |-> p2 + d2 - c2,
              p5 |-> p5 + d5 - c5]

F(i) == Norm(i, 1, 0, 0)
\* the decimal literal m * 10^-e
Dec(m, e) == Norm(m, 1, e, e)

\* x * y; each numerator is reduced against the other factor's denominator first
Mul(x, y) ==
    LET a == Norm(x.n, y.d, y.p2, y.p5)
        b == Norm(y.n, x.d, x.p2, x.p5)
    IN  [n |-> a.n * b.n, d |-> a.d * b.d, p2 |-> a.p2 + b.p2, p5 |-> a.p5 + b.p5]

Den(x) == x.d * Pow(2, x.p2) * Pow(5, x.p5)

\* x / y for y # 0
Div(x, y) ==
    LET inv == Norm(IF y.n < 0 THEN -Den(y) ELSE Den(y), Abs(y.n), 0, 0)
    IN  Mul(x, inv)

Sub(x, y) == Norm(x.n * Den(y) - y.n * Den(x), Den(x) * Den(y), 0, 0)

IsPositive(x) == x.n > 0

(***************************************************************************)
(* Unit conversion constants, lib.rs lines 6-12 and 81-83, 113.            *)
(***************************************************************************)
GRAINS_TO_KG == Dec(6479891, 11)
FPS_TO_MPS == Dec(3048, 4)
YARDS_TO_METERS == Dec(9144, 4)
INCHES_TO_METERS == Dec(254, 4)
MPH_TO_MPS == Dec(44704, 5)
PI == Dec(314159265, 8)
DEGREES_TO_RADIANS == Div(PI, F(180))
INHG_TO_PA == Dec(3386389, 3)
FEET_TO_METERS == Dec(3048, 4)
JOULES_TO_FTLBS == Dec(737562, 6)

(***************************************************************************)
(* Ruby values of the request hash.  An entry is absent, holds a value of  *)
(* the wrong type for the Rust type asked for, or holds a value; a nested  *)
(* hash entry may also hold nil.                                           *)
(***************************************************************************)
Absent(v) == [k |-> "absent", v |-> v]
Wrong(v) == [k |-> "wrong", v |-> v]
Nil(v) == [k |-> "nil", v |-> v]
Val(v) == [k |-> "val", v |-> v]
Num(i) == Val(F(i))

NoWindHash == [speed_mph |-> Absent(F(0)), direction_degrees |-> Absent(F(0))]
NoAtmHash ==
    [temperature_f |-> Absent(F(0)), pressure_inhg |-> Absent(F(0)),
     humidity_percent |-> Absent(F(0)), altitude_feet |-> Absent(F(0))]

RequiredKeys ==
    <<"bc", "bullet_weight_grains", "muzzle_velocity_fps", "bullet_diameter_inches",
      "bullet_length_inches", "sight_height_inches", "zero_distance_yards">>
PositiveKeys ==
    {"bc", "bullet_weight_grains", "muzzle_velocity_fps", "bullet_diameter_inches",
     "bullet_length_inches"}
OptionalKeys ==
    <<"shooting_angle_degrees", "twist_rate_inches", "is_right_twist", "drag_model",
      "wind", "atmosphere">>
RequestKeys == RequiredKeys \o OptionalKeys

\* a well-formed request that leaves every optional entry out
BaseRequest ==
    [bc |-> Val(Dec(5, 1)),
     bullet_weight_grains |-> Num(150),
     muzzle_velocity_fps |-> Num(2800),
     bullet_diameter_inches |-> Val(Dec(308, 3)),
     bullet_length_inches |-> Val(Dec(12, 1)),
     sight_height_inches |-> Val(Dec(15, 1)),
     zero_distance_yards |-> Num(100),
     shooting_angle_degrees |-> Absent(F(0)),
     twist_rate_inches |-> Absent(F(0)),
     is_right_twist |-> Absent(TRUE),
     drag_model |-> Absent(<<>>),
     wind |-> Absent(NoWindHash),
     atmosphere |-> Absent(NoAtmHash)]

DragTokens ==
    {<<"G", "1">>, <<"g", "1">>, <<"G", "7">>, <<"g", "7">>, <<"G", "8">>, <<"g", "8">>,
     <<"G", "3">>, <<"G", "1", "0">>}

WindHashes ==
    {[speed_mph |-> s, direction_degrees |-> d] :
        s \in {Absent(F(0)), Num(10), Wrong(F(0))}, d \in {Absent(F(0)), Num(90)}}

\* the standard atmosphere written out by the caller
StandardAtmHash ==
    [temperature_f |-> Num(59), pressure_inhg |-> Val(Dec(2992, 2)),
     humidity_percent |-> Num(50), altitude_feet |-> Num(0)]

AtmHashes ==
    {[temperature_f |-> t, pressure_inhg |-> p, humidity_percent |-> h, altitude_feet |-> a] :
        t \in {Absent(F(0)), Num(50)}, p \in {Absent(F(0)), Num(30)},
        h \in {Absent(F(0)), Num(80)}, a \in {Absent(F(0)), Num(1000)}}
    \cup {StandardAtmHash, [NoAtmHash EXCEPT !.temperature_f = Wrong(F(0))]}

\* the other values an entry of the request takes
Alternatives(key) ==
    IF key \in PositiveKeys
        THEN {Absent(F(0)), Wrong(F(0)), Num(0), Num(-1)}
    ELSE IF key \in {"sight_height_inches", "zero_distance_yards"}
        THEN {Absent(F(0)), Wrong(F(0))}
    ELSE IF key = "shooting_angle_degrees" THEN {Wrong(F(0)), Num(2)}
    ELSE IF key = "twist_rate_inches" THEN {Wrong(F(0)), Num(8)}
    \* bool is converted by Ruby truthiness, so no value is of the wrong type
    ELSE IF key = "is_right_twist" THEN {Val(TRUE), Val(FALSE)}
    ELSE IF key = "drag_model" THEN {Wrong(<<>>)} \cup {Val(t) : t \in DragTokens}
    ELSE IF key = "wind"
        THEN {Nil(NoWindHash), Wrong(NoWindHash)} \cup {Val(h) : h \in WindHashes}
    ELSE {Nil(NoAtmHash), Wrong(NoAtmHash)} \cup {Val(h) : h \in AtmHashes}

\* the requests over the keys from position i on that differ from BaseRequest
\* in at most `budget` entries
RECURSIVE RequestsFrom(_, _)
RequestsFrom(i, budget) ==
    IF i > Len(RequestKeys) THEN {<<>>}
    ELSE LET key == RequestKeys[i]
         IN  {(key :> BaseRequest[key]) @@ rest : rest \in RequestsFrom(i + 1, budget)}
             \cup
             (IF budget = 0 THEN {}
              ELSE {(key :> a) @@ rest :
                        a \in Alternatives(key), rest \in RequestsFrom(i + 1, budget - 1)})

Requests == RequestsFrom(1, MaxDev)

(***************************************************************************)
(* magnus hash accessors.  Each returns Ok(value) or the Ruby exception    *)
(* the `?` operator hands back to the caller.                              *)
(***************************************************************************)
Ok(v) == [ok |-> TRUE, v |-> v, class |-> "", msg |-> ""]
Fail(class, msg, v) == [ok |-> FALSE, v |-> v, class |-> class, msg |-> msg]

\* fetch that reads a missing key as the placeholder value instead of raising
fetch_lenient(hash, key) ==
    LET e == hash[key]
    IN  IF e.k \in {"absent", "val"} THEN Ok(e.v) ELSE Fail("TypeError", key, e.v)

\* RHash::fetch: Hash#fetch raises KeyError on a missing key, and the
\* conversion to the Rust type raises TypeError
fetch(hash, key) ==
    LET e == hash[key]
    IN  IF e.k = "absent" THEN Fail("KeyError", key, e.v)
        ELSE IF e.k = "val" THEN Ok(e.v)
        ELSE Fail("TypeError", key, e.v)

\* lookup2 that lets the default win over a value that is present
lookup2_default(hash, key, default) ==
    LET e == hash[key]
    IN  IF e.k \in {"absent", "val"} THEN Ok(default) ELSE Fail("TypeError", key, e.v)

\* RHash::lookup2: the default stands in for a missing key only
lookup2(hash, key, default) ==
    LET e == hash[key]
    IN  IF e.k = "absent" THEN Ok(default)
        ELSE IF e.k = "val" THEN Ok(e.v)
        ELSE Fail("TypeError", key, e.v)

\* RHash::lookup::<_, Option<RHash>>: a missing key reads as nil, nil as None
lookup(hash, key) ==
    LET e == hash[key]
    IN  IF e.k \in {"absent", "nil"} THEN Ok([some |-> FALSE, hash |-> e.v])
        ELSE IF e.k = "val" THEN Ok([some |-> TRUE, hash |-> e.v])
        ELSE Fail("TypeError", key, e.v)

\* the first failed accessor of a sequence of accessor results, 0 if none failed
RECURSIVE FirstFailure(_, _)
FirstFailure(rs, i) ==
    IF i > Len(rs) THEN 0 ELSE IF ~rs[i].ok THEN i ELSE FirstFailure(rs, i + 1)

(***************************************************************************)
(* The outcome of a call: nothing yet, Ok(response hash) or Err(exception).*)
(***************************************************************************)
NoOutcome == [kind |-> "none", class |-> "", origin |-> "", msg |-> "", value |-> <<>>]
Err(class, origin, msg) ==
    [kind |-> "err", class |-> class, origin |-> origin, msg |-> msg, value |-> <<>>]
Returned(hash) ==
    [kind |-> "ok", class |-> "", origin |-> "", msg |-> "", value |-> hash]

(***************************************************************************)
(* Locals of solve_trajectory before they are assigned.                    *)
(***************************************************************************)
NoLocals ==
    [bc |-> F(0), bullet_weight_grains |-> F(0), muzzle_velocity_fps |-> F(0),
     bullet_diameter_inches |-> F(0), bullet_length_inches |-> F(0),
     sight_height_inches |-> F(0), zero_distance_yards |-> F(0),
     shooting_angle_degrees |-> F(0), twist_rate_inches |-> F(0),
     is_right_twist |-> FALSE, drag_model_str |-> <<>>, drag_model |-> "unset"]
NoInputs ==
    [bc_type |-> "unset", bc_value |-> F(0), bullet_diameter |-> F(0), bullet_mass |-> F(0),
     bullet_length |-> F(0), muzzle_velocity |-> F(0), sight_height |-> F(0),
     target_distance |-> F(0), shooting_angle |-> F(0), twist_rate |-> F(0),
     is_twist_right |-> FALSE, caliber_inches |-> F(0), weight_grains |-> F(0)]
NoWind == [speed |-> F(0), direction |-> F(0)]
NoAtmosphere ==
    [temperature |-> F(0), pressure |-> F(0), humidity |-> F(0), altitude |-> F(0)]
NoSolver ==
    [constructed |-> FALSE, solves |-> 0, inputs |-> NoInputs, wind |-> NoWind,
     atmosphere |-> NoAtmosphere]
NoResult ==
    [kind |-> "none", err |-> "", max_range |-> F(0), max_height |-> F(0),
     time_of_flight |-> F(0), impact_velocity |-> F(0), impact_energy |-> F(0),
     points |-> <<>>]

Init ==
    /\ req \in Requests
    /\ pc = "fetch_required"
    /\ loc = NoLocals
    /\ ballistic_inputs = NoInputs
    /\ wind = NoWind
    /\ atmosphere = NoAtmosphere
    /\ solver = NoSolver
    /\ result = NoResult
    /\ result_hash = <<>>
    /\ points = <<>>
    /\ outcome = NoOutcome

\* return Err(..): the call ends with the exception; origin records the step
\* of solve_trajectory that returned it
Raise(class, msg) ==
    /\ outcome' = Err(class, pc, msg)
    /\ pc' = "done"

(***************************************************************************)
(* lib.rs 17-23: the required entries.                                     *)
(***************************************************************************)
FetchRequired ==
    /\ pc = "fetch_required"
    /\ LET rs == [i \in 1..Len(RequiredKeys) |-> fetch(req, RequiredKeys[i])]
           bad == FirstFailure(rs, 1)
       IN  IF bad # 0
           THEN /\ Raise(rs[bad].class, rs[bad].msg)
                /\ loc' = loc
           ELSE /\ loc' = [loc EXCEPT !.bc = rs[1].v,
                                      !.bullet_weight_grains = rs[2].v,
                                      !.muzzle_velocity_fps = rs[3].v,
                                      !.bullet_diameter_inches = rs[4].v,
                                      !.bullet_length_inches = rs[5].v,
                                      !.sight_height_inches = rs[6].v,
                                      !.zero_distance_yards = rs[7].v]
                /\ pc' = "lookup_optional"
                /\ outcome' = outcome
    /\ UNCHANGED <<req, ballistic_inputs, wind, atmosphere, solver, result, result_hash,
                   points>>

(***************************************************************************)
(* lib.rs 25-28: the optional scalar entries and their defaults.           *)
(***************************************************************************)
LookupOptional ==
    /\ pc = "lookup_optional"
    /\ LET rs == <<lookup2(req, "shooting_angle_degrees", F(0)),
                   lookup2(req, "twist_rate_inches", F(10)),
                   lookup2(req, "is_right_twist", TRUE)>>
           bad == FirstFailure(rs, 1)
       IN  IF bad # 0
           THEN /\ Raise(rs[bad].class, rs[bad].msg)
                /\ loc' = loc
           ELSE /\ loc' = [loc EXCEPT !.shooting_angle_degrees = rs[1].v,
                                      !.twist_rate_inches = rs[2].v,
                                      !.is_right_twist = rs[3].v]
                /\ pc' = "drag_model"
                /\ outcome' = outcome
    /\ UNCHANGED <<req, ballistic_inputs, wind, atmosphere, solver, result, result_hash,
                   points>>

(***************************************************************************)
(* lib.rs 30-37: the drag model.                                           *)
(***************************************************************************)
\* a comparison that keeps the letter case
UpperChar_identity(c) == c

\* char::to_uppercase over the characters the tokens are written in
UpperChar(c) == IF c = "g" THEN "G" ELSE c

to_uppercase(str) == [i \in 1..Len(str) |-> UpperChar(str[i])]

\* the match of lines 32-37; "invalid" stands for the `_` arm
MatchDragModel(upper) ==
    IF upper = <<"G", "1">> THEN "G1"
    ELSE IF upper = <<"G", "7">> THEN "G7"
    ELSE IF upper = <<"G", "8">> THEN "G8"
    ELSE "invalid"

SelectDragModel ==
    /\ pc = "drag_model"
    /\ LET r == lookup2(req, "drag_model", <<"G", "7">>)
       IN  IF ~r.ok
           THEN /\ Raise(r.class, r.msg)
                /\ loc' = loc
           ELSE LET m == MatchDragModel(to_uppercase(r.v))
                IN  IF m = "invalid"
                    THEN /\ Raise("ArgumentError",
                                  "Invalid drag_model, must be G1, G7, or G8")
                         /\ loc' = [loc EXCEPT !.drag_model_str = r.v]
                    ELSE /\ loc' = [loc EXCEPT !.drag_model_str = r.v, !.drag_model = m]
                         /\ pc' = "build_inputs"
                         /\ outcome' = outcome
    /\ UNCHANGED <<req, ballistic_inputs, wind, atmosphere, solver, result, result_hash,
                   points>>

(***************************************************************************)
(* lib.rs 39-55: BallisticInputs.                                          *)
(***************************************************************************)
\* BallisticInputs with the mass left in grains
BallisticInputsOf_grains(l) ==
    [bc_type |-> l.drag_model,
     bc_value |-> l.bc,
     bullet_diameter |-> Mul(l.bullet_diameter_inches, INCHES_TO_METERS),
     bullet_mass |-> l.bullet_weight_grains,
     bullet_length |-> Mul(l.bullet_length_inches, INCHES_TO_METERS),
     muzzle_velocity |-> Mul(l.muzzle_velocity_fps, FPS_TO_MPS),
     sight_height |-> Mul(l.sight_height_inches, INCHES_TO_METERS),
     target_distance |-> Mul(l.zero_distance_yards, YARDS_TO_METERS),
     shooting_angle |-> Mul(l.shooting_angle_degrees, DEGREES_TO_RADIANS),
     twist_rate |-> l.twist_rate_inches,
     is_twist_right |-> l.is_right_twist,
     caliber_inches |-> l.bullet_diameter_inches,
     weight_grains |-> l.bullet_weight_grains]

BallisticInputsOf(l) ==
    [bc_type |-> l.drag_model,
     bc_value |-> l.bc,
     bullet_diameter |-> Mul(l.bullet_diameter_inches, INCHES_TO_METERS),
     bullet_mass |-> Mul(l.bullet_weight_grains, GRAINS_TO_KG),
     bullet_length |-> Mul(l.bullet_length_inches, INCHES_TO_METERS),
     muzzle_velocity |-> Mul(l.muzzle_velocity_fps, FPS_TO_MPS),
     sight_height |-> Mul(l.sight_height_inches, INCHES_TO_METERS),
     target_distance |-> Mul(l.zero_distance_yards, YARDS_TO_METERS),
     shooting_angle |-> Mul(l.shooting_angle_degrees, DEGREES_TO_RADIANS),
     twist_rate |-> l.twist_rate_inches,
     is_twist_right |-> l.is_right_twist,
     caliber_inches |-> l.bullet_diameter_inches,
     weight_grains |-> l.bullet_weight_grains]

BuildInputs ==
    /\ pc = "build_inputs"
    /\ ballistic_inputs' = BallisticInputsOf(loc)
    /\ pc' = "wind"
    /\ UNCHANGED <<req, loc, wind, atmosphere, solver, result, result_hash, points,
                   outcome>>

(***************************************************************************)
(* lib.rs 57-71: WindConditions.                                           *)
(***************************************************************************)
WindConditionsOf(hash) ==
    LET w == lookup(hash, "wind")
    IN  IF ~w.ok THEN Fail(w.class, w.msg, NoWind)
        ELSE IF w.v.some
        THEN LET speed_mph == lookup2(w.v.hash, "speed_mph", F(0))
                 direction_deg == lookup2(w.v.hash, "direction_degrees", F(0))
             IN  IF ~speed_mph.ok THEN Fail(speed_mph.class, speed_mph.msg, NoWind)
                 ELSE IF ~direction_deg.ok
                     THEN Fail(direction_deg.class, direction_deg.msg, NoWind)
                 ELSE Ok([speed |-> Mul(speed_mph.v, MPH_TO_MPS),
                          direction |-> Mul(direction_deg.v, DEGREES_TO_RADIANS)])
        ELSE Ok([speed |-> F(0), direction |-> F(0)])

ReadWind ==
    /\ pc = "wind"
    /\ LET r == WindConditionsOf(req)
       IN  IF r.ok
           THEN /\ wind' = r.v
                /\ pc' = "atmosphere"
                /\ outcome' = outcome
           ELSE /\ Raise(r.class, r.msg)
                /\ wind' = wind
    /\ UNCHANGED <<req, loc, ballistic_inputs, atmosphere, solver, result, result_hash,
                   points>>

(***************************************************************************)
(* lib.rs 73-99: AtmosphericConditions.                                    *)
(***************************************************************************)
\* lines 92-98, the branch taken without an atmosphere hash
StandardAtmosphere ==
    [temperature |-> F(15), pressure |-> F(101325), humidity |-> F(50), altitude |-> F(0)]

AtmosphericConditionsOf(hash) ==
    LET a == lookup(hash, "atmosphere")
    IN  IF ~a.ok THEN Fail(a.class, a.msg, NoAtmosphere)
        ELSE IF a.v.some
        THEN LET rs == <<lookup2(a.v.hash, "temperature_f", F(59)),
                         lookup2(a.v.hash, "pressure_inhg", Dec(2992, 2)),
                         lookup2(a.v.hash, "humidity_percent", F(50)),
                         lookup2(a.v.hash, "altitude_feet", F(0))>>
                 bad == FirstFailure(rs, 1)
             IN  IF bad # 0 THEN Fail(rs[bad].class, rs[bad].msg, NoAtmosphere)
                 ELSE Ok([temperature |-> Div(Mul(Sub(rs[1].v, F(32)), F(5)), F(9)),
                          pressure |-> Mul(rs[2].v, INHG_TO_PA),
                          humidity |-> rs[3].v,
                          altitude |-> Mul(rs[4].v, FEET_TO_METERS)])
        ELSE Ok(StandardAtmosphere)

ReadAtmosphere ==
    /\ pc = "atmosphere"
    /\ LET r == AtmosphericConditionsOf(req)
       IN  IF r.ok
           THEN /\ atmosphere' = r.v
                /\ pc' = "new_solver"
                /\ outcome' = outcome
           ELSE /\ Raise(r.class, r.msg)
                /\ atmosphere' = atmosphere
    /\ UNCHANGED <<req, loc, ballistic_inputs, wind, solver, result, result_hash, points>>

(***************************************************************************)
(* lib.rs 101-104: the solver.  The engine is an external crate; what it   *)
(* returns is any result or any error.                                     *)
(***************************************************************************)
SolverErrors ==
    {"invalid atmosphere", "zero not found", "subsonic breakdown", "numerical instability"}

TrajectoryPoints ==
    {[time |-> F(0), position |-> [x |-> F(0), y |-> Dec(-381, 4), z |-> F(0)],
      velocity_magnitude |-> Dec(85344, 2), kinetic_energy |-> F(3500)],
     [time |-> Dec(125, 3), position |-> [x |-> Dec(9144, 2), y |-> F(0), z |-> Dec(127, 4)],
      velocity_magnitude |-> F(762), kinetic_energy |-> F(2800)]}

RECURSIVE SeqsUpTo(_, _)
SeqsUpTo(S, n) ==
    IF n = 0 THEN {<<>>}
    ELSE LET shorter == SeqsUpTo(S, n - 1)
         IN  shorter \cup {Append(q, e) : q \in {t \in shorter : Len(t) = n - 1}, e \in S}

SolverResults ==
    {[NoResult EXCEPT !.kind = "err", !.err = e] : e \in SolverErrors}
    \cup
    {[kind |-> "ok", err |-> "", max_range |-> Dec(9144, 1), max_height |-> Dec(4572, 4),
      time_of_flight |-> Dec(15, 1), impact_velocity |-> Dec(3048, 1),
      impact_energy |-> F(1000), points |-> ps] : ps \in SeqsUpTo(TrajectoryPoints, MaxPoints)}

\* line 102
NewSolver ==
    /\ pc = "new_solver"
    /\ solver' = [constructed |-> TRUE, solves |-> 0, inputs |-> ballistic_inputs,
                  wind |-> wind, atmosphere |-> atmosphere]
    /\ pc' = "solve"
    /\ UNCHANGED <<req, loc, ballistic_inputs, wind, atmosphere, result, result_hash,
                   points, outcome>>

\* a failed solve that is tried again
AfterSolve_retry(r) ==
    /\ pc' = (IF r.kind = "err" THEN "solve" ELSE "write_summary")
    /\ outcome' = outcome

\* a failed solve reported as an argument error
AfterSolve_argerror(r) ==
    IF r.kind = "err"
    THEN Raise("ArgumentError", r.err)
    ELSE /\ pc' = "write_summary"
         /\ outcome' = outcome

\* what follows solver.solve() returning r (lines 103-104)
AfterSolve(r) ==
    IF r.kind = "err"
    THEN Raise("RuntimeError", r.err)
    ELSE /\ pc' = "write_summary"
         /\ outcome' = outcome

Solve ==
    /\ pc = "solve"
    /\ \E r \in SolverResults :
        /\ result' = r
        /\ AfterSolve(r)
    /\ solver' = [solver EXCEPT !.solves = @ + 1]
    /\ UNCHANGED <<req, loc, ballistic_inputs, wind, atmosphere, result_hash, points>>

(***************************************************************************)
(* lib.rs 106-136: the response hash.  A Ruby hash keeps its entries in    *)
(* insertion order; it is a sequence of entries here.  Every aset and push *)
(* may raise in the Ruby runtime, which `?` hands back to the caller.      *)
(***************************************************************************)
Float(key, x) == [key |-> key, float |-> x, ary |-> <<>>]
Array(key, a) == [key |-> key, float |-> F(0), ary |-> a]

\* lines 109-113
SummaryEntries(r) ==
    <<Float("max_range_yards", Div(r.max_range, YARDS_TO_METERS)),
      Float("max_height_yards", Div(r.max_height, YARDS_TO_METERS)),
      Float("time_of_flight", r.time_of_flight),
      Float("impact_velocity_fps", Div(r.impact_velocity, FPS_TO_MPS)),
      Float("impact_energy_ftlbs", Mul(r.impact_energy, JOULES_TO_FTLBS))>>

\* lines 118-128
PointEntries(point) ==
    <<Float("time", point.time),
      Float("x", Div(point.position.x, YARDS_TO_METERS)),
      Float("y", Div(point.position.y, YARDS_TO_METERS)),
      Float("z", Div(point.position.z, YARDS_TO_METERS)),
      Float("velocity_fps", Div(point.velocity_magnitude, FPS_TO_MPS)),
      Float("energy_ftlbs", Mul(point.kinetic_energy, JOULES_TO_FTLBS))>>

\* the entries written when the write numbered failAt raises (0: none raises)
Written(entries, failAt) ==
    IF failAt = 0 THEN entries ELSE SubSeq(entries, 1, failAt - 1)

\* a summary whose failed write is dropped and the call carries on
WriteSummary_swallow ==
    /\ pc = "write_summary"
    /\ \E failAt \in 0..Len(SummaryEntries(result)) :
        result_hash' = Written(SummaryEntries(result), failAt)
    /\ pc' = "points"
    /\ points' = <<>>
    /\ UNCHANGED <<req, loc, ballistic_inputs, wind, atmosphere, solver, result, outcome>>

\* lines 107-116
WriteSummary ==
    /\ pc = "write_summary"
    /\ \E failAt \in 0..Len(SummaryEntries(result)) :
        /\ result_hash' = Written(SummaryEntries(result), failAt)
        /\ IF failAt = 0
           THEN /\ pc' = "points"
                /\ outcome' = outcome
           ELSE Raise("RubyException", SummaryEntries(result)[failAt].key)
    /\ points' = <<>>
    /\ UNCHANGED <<req, loc, ballistic_inputs, wind, atmosphere, solver, result>>

\* a loop that walks the solver's points from the last one
NextPoint_reversed == result.points[Len(result.points) - Len(points)]

\* the solver's point the loop of line 117 takes next
NextPoint == result.points[Len(points) + 1]

\* lines 117-131, one iteration.  Whichever of its six asets or its push
\* raises, the point hash is dropped and the array is left as it was.
ConvertPoint ==
    /\ pc = "points"
    /\ Len(points) < Len(result.points)
    /\ \E raises \in BOOLEAN :
        IF raises
        THEN /\ points' = points
             /\ Raise("RubyException", "point")
        ELSE /\ points' = Append(points, PointEntries(NextPoint))
             /\ pc' = pc
             /\ outcome' = outcome
    /\ UNCHANGED <<req, loc, ballistic_inputs, wind, atmosphere, solver, result,
                   result_hash>>

\* lines 133-135
FinishResponse ==
    /\ pc = "points"
    /\ Len(points) = Len(result.points)
    /\ \E raises \in BOOLEAN :
        IF raises
        THEN /\ result_hash' = result_hash
             /\ Raise("RubyException", "points")
        ELSE /\ result_hash' = Append(result_hash, Array("points", points))
             /\ outcome' = Returned(result_hash')
             /\ pc' = "done"
    /\ UNCHANGED <<req, loc, ballistic_inputs, wind, atmosphere, solver, result, points>>

Next ==
    \/ FetchRequired
    \/ LookupOptional
    \/ SelectDragModel
    \/ BuildInputs
    \/ ReadWind
    \/ ReadAtmosphere
    \/ NewSolver
    \/ Solve
    \/ WriteSummary
    \/ ConvertPoint
    \/ FinishResponse

Spec == Init /\ [][Next]_vars

(***************************************************************************)
(* Vocabulary of the properties.                                           *)
(***************************************************************************)
Steps ==
    <<"fetch_required", "lookup_optional", "drag_model", "build_inputs", "wind",
      "atmosphere", "new_solver", "solve", "write_summary", "points", "done">>
StepIndex(step) == CHOOSE i \in 1..Len(Steps) : Steps[i] = step
\* the step the call is at, or the step at which it ended with an error
Position == IF pc = "done" /\ outcome.kind = "err" THEN outcome.origin ELSE pc
Passed(step) == StepIndex(Position) > StepIndex(step)

Given(hash, key) == hash[key].k = "val"
MissingRequired == \E i \in 1..Len(RequiredKeys) : req[RequiredKeys[i]].k = "absent"
CaseVariants(model) ==
    IF model = "G1" THEN {<<"G", "1">>, <<"g", "1">>}
    ELSE IF model = "G7" THEN {<<"G", "7">>, <<"g", "7">>}
    ELSE IF model = "G8" THEN {<<"G", "8">>, <<"g", "8">>}
    ELSE {}
RecognizedTokens == CaseVariants("G1") \cup CaseVariants("G7") \cup CaseVariants("G8")
UnrecognizedToken == Given(req, "drag_model") /\ req.drag_model.v \notin RecognizedTokens
InvalidDragModel ==
    Err("ArgumentError", "drag_model", "Invalid drag_model, must be G1, G7, or G8")
KeysOf(hash) == [i \in 1..Len(hash) |-> hash[i].key]

\* the conversion factors, as decimal numbers
MetersPerInch == Dec(254, 4)
MetersPerYard == Dec(9144, 4)
MetersPerFoot == Dec(3048, 4)
KilogramsPerGrain == Dec(6479891, 11)
MetersPerSecondPerMph == Dec(44704, 5)
PascalsPerInHg == Dec(3386389, 3)
FootPoundsPerJoule == Dec(737562, 6)
StandardInHg == Dec(2992, 2)

(***************************************************************************)
(* C1: a request that lacks a required entry or carries an unrecognized    *)
(* drag-model token never gets a solver: the solver is not constructed,    *)
(* solve is not called, the call never leaves the validation steps, and    *)
(* when it has ended it has ended with an error.                           *)
(***************************************************************************)
C1_RejectedBeforeSimulation ==
    (MissingRequired \/ UnrecognizedToken) =>
        /\ ~solver.constructed
        /\ solver.solves = 0
        /\ result.kind = "none"
        /\ pc \in {"fetch_required", "lookup_optional", "drag_model", "done"}
        /\ (pc = "done" => outcome.kind = "err")

\* a call with an unrecognized token has ended, no solver constructed
C1_Witness ==
    /\ pc = "done"
    /\ UnrecognizedToken
    /\ outcome.kind = "err"
    /\ ~solver.constructed

(***************************************************************************)
(* C2: once the match on the drag-model token has run, a token equal to    *)
(* G1, G7 or G8 up to letter case has selected the model of that name      *)
(* (which is the model handed to the solver), and any other token has      *)
(* ended the call with the invalid-drag-model argument error.              *)
(***************************************************************************)
C2_DragModelToken ==
    (Given(req, "drag_model") /\ (Passed("drag_model") \/ (pc = "done" /\ Position = "drag_model")))
    =>
        IF req.drag_model.v \in RecognizedTokens
        THEN /\ Passed("drag_model")
             /\ loc.drag_model \in {"G1", "G7", "G8"}
             /\ req.drag_model.v \in CaseVariants(loc.drag_model)
             /\ (solver.constructed => solver.inputs.bc_type = loc.drag_model)
        ELSE /\ pc = "done"
             /\ outcome = InvalidDragModel

\* the lower-case token g8 has selected G8 for the solver
C2_Witness ==
    /\ solver.constructed
    /\ Given(req, "drag_model")
    /\ req.drag_model.v = <<"g", "8">>
    /\ solver.inputs.bc_type = "G8"

(***************************************************************************)
(* C3: a request whose ballistic coefficient, mass, diameter, length or    *)
(* muzzle velocity is zero or negative is rejected before integration:     *)
(* solve is never called for it and its call ends with an error.           *)
(***************************************************************************)
NonPositiveField ==
    \E key \in PositiveKeys : Given(req, key) /\ ~IsPositive(req[key].v)

C3_NonPositiveRejected ==
    NonPositiveField =>
        /\ solver.solves = 0
        /\ (pc = "done" => outcome.kind = "err")

(***************************************************************************)
(* C4: an atmosphere hash whose entries are the standard values (59 F,     *)
(* 29.92 inHg, 50 %, 0 ft) or are left out hands the solver the same       *)
(* AtmosphericConditions as a request without an atmosphere.               *)
(***************************************************************************)
IsStandardAtmHash(hash) ==
    \A key \in DOMAIN hash : hash[key].k = "absent" \/ hash[key] = StandardAtmHash[key]

C4_StandardAtmosphereRoundTrip ==
    (solver.constructed /\ Given(req, "atmosphere") /\ IsStandardAtmHash(req.atmosphere.v))
    => solver.atmosphere = StandardAtmosphere

(***************************************************************************)
(* C5: a call that has not ended has returned nothing; a call that has     *)
(* ended has returned either one error and no response hash, or a          *)
(* response hash with exactly the six entries max_range_yards,             *)
(* max_height_yards, time_of_flight, impact_velocity_fps,                  *)
(* impact_energy_ftlbs and points.                                         *)
(***************************************************************************)
ResponseKeys ==
    <<"max_range_yards", "max_height_yards", "time_of_flight", "impact_velocity_fps",
      "impact_energy_ftlbs", "points">>

C5_NoPartialResult ==
    /\ (pc # "done" => outcome = NoOutcome)
    /\ (pc = "done" =>
            \/ (outcome.kind = "err" /\ outcome.value = <<>>)
            \/ (outcome.kind = "ok" /\ KeysOf(outcome.value) = ResponseKeys))

\* a write of the summary raised after some entries were already written
C5_Witness ==
    /\ pc = "done"
    /\ outcome.kind = "err"
    /\ Len(result_hash) \in 1..4

(***************************************************************************)
(* C6.  The entries of the request that reach the solver converted to SI   *)
(* units: lengths in m, mass in kg, speeds in m/s, angles in radians,      *)
(* temperature in degrees C, pressure in Pa.                               *)
(***************************************************************************)
Celsius(temp_f) == Div(Mul(Sub(temp_f, F(32)), F(5)), F(9))

SIConvertedFields ==
    /\ solver.inputs.bullet_diameter = Mul(req.bullet_diameter_inches.v, MetersPerInch)
    /\ solver.inputs.bullet_mass = Mul(req.bullet_weight_grains.v, KilogramsPerGrain)
    /\ solver.inputs.bullet_length = Mul(req.bullet_length_inches.v, MetersPerInch)
    /\ solver.inputs.muzzle_velocity = Mul(req.muzzle_velocity_fps.v, MetersPerFoot)
    /\ solver.inputs.sight_height = Mul(req.sight_height_inches.v, MetersPerInch)
    /\ solver.inputs.target_distance = Mul(req.zero_distance_yards.v, MetersPerYard)
    /\ (Given(req, "shooting_angle_degrees") =>
            solver.inputs.shooting_angle =
                Mul(req.shooting_angle_degrees.v, DEGREES_TO_RADIANS))
    /\ (Given(req, "wind") /\ Given(req.wind.v, "speed_mph") =>
            solver.wind.speed = Mul(req.wind.v.speed_mph.v, MetersPerSecondPerMph))
    /\ (Given(req, "wind") /\ Given(req.wind.v, "direction_degrees") =>
            solver.wind.direction = Mul(req.wind.v.direction_degrees.v, DEGREES_TO_RADIANS))
    /\ (Given(req, "atmosphere") /\ Given(req.atmosphere.v, "temperature_f") =>
            solver.atmosphere.temperature = Celsius(req.atmosphere.v.temperature_f.v))
    /\ (Given(req, "atmosphere") /\ Given(req.atmosphere.v, "pressure_inhg") =>
            solver.atmosphere.pressure = Mul(req.atmosphere.v.pressure_inhg.v, PascalsPerInHg))
    /\ (Given(req, "atmosphere") /\ Given(req.atmosphere.v, "altitude_feet") =>
            solver.atmosphere.altitude = Mul(req.atmosphere.v.altitude_feet.v, MetersPerFoot))

(***************************************************************************)
(* C6 as stated: every dimensional field of the structures handed to       *)
(* TrajectorySolver::new that is set from the request holds the request's  *)
(* value converted to its SI unit; none is left in the caller's unit.      *)
(***************************************************************************)
C6_OnlySIValues ==
    solver.constructed =>
        /\ SIConvertedFields
        /\ (Given(req, "twist_rate_inches") =>
                solver.inputs.twist_rate = Mul(req.twist_rate_inches.v, MetersPerInch))
        /\ solver.inputs.caliber_inches = Mul(req.bullet_diameter_inches.v, MetersPerInch)
        /\ solver.inputs.weight_grains = Mul(req.bullet_weight_grains.v, KilogramsPerGrain)

(***************************************************************************)
(* C6 as amended: every dimensional field of the structures handed to      *)
(* TrajectorySolver::new that is set from the request holds the request's  *)
(* value converted to its SI unit, except twist_rate, caliber_inches and   *)
(* weight_grains, which hold the request's inches and grains unchanged.    *)
(***************************************************************************)
C6_SIExceptNativeFields ==
    solver.constructed =>
        /\ SIConvertedFields
        /\ (Given(req, "twist_rate_inches") =>
                solver.inputs.twist_rate = req.twist_rate_inches.v)
        /\ solver.inputs.caliber_inches = req.bullet_diameter_inches.v
        /\ solver.inputs.weight_grains = req.bullet_weight_grains.v

\* a solver was constructed for a request that gives a twist rate
C6_Witness ==
    /\ solver.constructed
    /\ Given(req, "twist_rate_inches")
    /\ IsPositive(solver.inputs.bullet_mass)

(***************************************************************************)
(* C7: in the structures handed to the solver an absent optional entry has *)
(* its default (angle 0, right-hand twist, wind 0/0, atmosphere 15 C,      *)
(* 101325 Pa, 50 %, 0 m), an entry that is present has its own converted   *)
(* value, and in a wind or atmosphere hash each entry is defaulted on its  *)
(* own (59 F, 29.92 inHg, 50 %, 0 ft, converted like a given value).       *)
(***************************************************************************)
OrDefault(hash, key, default) == IF Given(hash, key) THEN hash[key].v ELSE default

C7_Defaults ==
    solver.constructed =>
        /\ solver.inputs.shooting_angle =
              Mul(OrDefault(req, "shooting_angle_degrees", F(0)), DEGREES_TO_RADIANS)
        /\ (~Given(req, "shooting_angle_degrees") => solver.inputs.shooting_angle = F(0))
        /\ solver.inputs.is_twist_right = OrDefault(req, "is_right_twist", TRUE)
        /\ IF Given(req, "wind")
           THEN /\ solver.wind.speed =
                      Mul(OrDefault(req.wind.v, "speed_mph", F(0)), MetersPerSecondPerMph)
                /\ solver.wind.direction =
                      Mul(OrDefault(req.wind.v, "direction_degrees", F(0)), DEGREES_TO_RADIANS)
           ELSE solver.wind = [speed |-> F(0), direction |-> F(0)]
        /\ IF Given(req, "atmosphere")
           THEN /\ solver.atmosphere.temperature =
                      Celsius(OrDefault(req.atmosphere.v, "temperature_f", F(59)))
                /\ solver.atmosphere.pressure =
                      Mul(OrDefault(req.atmosphere.v, "pressure_inhg", StandardInHg),
                          PascalsPerInHg)
                /\ solver.atmosphere.humidity =
                      OrDefault(req.atmosphere.v, "humidity_percent", F(50))
                /\ solver.atmosphere.altitude =
                      Mul(OrDefault(req.atmosphere.v, "altitude_feet", F(0)), MetersPerFoot)
           ELSE solver.atmosphere =
                    [temperature |-> F(15), pressure |-> F(101325), humidity |-> F(50),
                     altitude |-> F(0)]

\* a solver constructed from an atmosphere hash with some entries given, some not
C7_Witness ==
    /\ solver.constructed
    /\ Given(req, "atmosphere")
    /\ Given(req.atmosphere.v, "temperature_f")
    /\ ~Given(req.atmosphere.v, "pressure_inhg")
    /\ solver.atmosphere.temperature = F(10)

(***************************************************************************)
(* C8: solve is called at most once in a call, and when it has failed the  *)
(* call has ended with the runtime error that carries the solver's         *)
(* description, and no response entry or point has been written.           *)
(***************************************************************************)
C8_NoRetry ==
    /\ solver.solves <= 1
    /\ (solver.solves = 0 <=> result.kind = "none")
    /\ (result.kind = "err" =>
            /\ pc = "done"
            /\ outcome = Err("RuntimeError", "solve", result.err)
            /\ result_hash = <<>>
            /\ points = <<>>)

\* the one solve of a call failed and the call has ended
C8_Witness ==
    /\ pc = "done"
    /\ result.kind = "err"
    /\ solver.solves = 1

(***************************************************************************)
(* C9: the points array of a returned response has one entry per point of  *)
(* the solver's result, in the solver's order; entry i holds time, x, y,   *)
(* z, velocity_fps and energy_ftlbs computed from the solver's point i.    *)
(* While the loop runs, the array is the converted prefix of the result.   *)
(***************************************************************************)
PointKeys == <<"time", "x", "y", "z", "velocity_fps", "energy_ftlbs">>

BuiltFrom(entry, point) ==
    /\ KeysOf(entry) = PointKeys
    /\ entry[1].float = point.time
    /\ entry[2].float = Div(point.position.x, MetersPerYard)
    /\ entry[3].float = Div(point.position.y, MetersPerYard)
    /\ entry[4].float = Div(point.position.z, MetersPerYard)
    /\ entry[5].float = Div(point.velocity_magnitude, MetersPerFoot)
    /\ entry[6].float = Mul(point.kinetic_energy, FootPoundsPerJoule)

C9_PointsInOrder ==
    /\ Len(points) <= Len(result.points)
    /\ \A i \in 1..Len(points) : BuiltFrom(points[i], result.points[i])
    /\ (pc = "done" /\ outcome.kind = "ok" =>
            LET last == outcome.value[Len(outcome.value)]
            IN  /\ last.key = "points"
                /\ Len(last.ary) = Len(result.points)
                /\ \A i \in 1..Len(last.ary) : BuiltFrom(last.ary[i], result.points[i]))

\* a response was returned for a result of two or more points, two of them different
C9_Witness ==
    /\ pc = "done"
    /\ outcome.kind = "ok"
    /\ Len(result.points) >= 2
    /\ result.points[1] # result.points[2]

(***************************************************************************)
(* C10: an error raised by the drag-model match for an unrecognized token  *)
(* is an argument error; a request with such a token never ends in a       *)
(* runtime error or in an error raised by solve; every failure of solve is *)
(* reported as a runtime error raised at solve, and an argument error is   *)
(* never the report of a solver failure.                                   *)
(***************************************************************************)
C10_ErrorKindsByOrigin ==
    /\ (UnrecognizedToken =>
            /\ result.kind = "none"
            /\ outcome.class # "RuntimeError"
            /\ outcome.origin # "solve"
            /\ (outcome.origin = "drag_model" => outcome.class = "ArgumentError"))
    /\ (result.kind = "err" =>
            /\ outcome.kind = "err"
            /\ outcome.class = "RuntimeError"
            /\ outcome.origin = "solve")
    /\ (outcome.origin = "solve" => outcome.class = "RuntimeError" /\ result.kind = "err")
    /\ (outcome.class = "ArgumentError" => result.kind = "none")

\* the solver failed to find the zero and the call reported a runtime error
C10_Witness ==
    /\ pc = "done"
    /\ outcome.class = "RuntimeError"
    /\ outcome.msg = "zero not found"
    /\ ~UnrecognizedToken

====
